---- MODULE Spec2Model ----
(***************************************************************************)
(* State-machine model of the QR generator page (aurora-qr-studio):       *)
(* the QRGenerator component in its two variants (the rich contact form   *)
(* of src/unnamed/part_000 and the simple one of                          *)
(* src/src/components/qr/QRGenerator.tsx), its debounced regeneration     *)
(* effect, the asynchronous encoder calls and the export actions.         *)
(*                                                                         *)
(* JavaScript strings are modelled as sequences of one-character strings, *)
(* so that trim() and template concatenation are computed, not assumed.   *)
(***************************************************************************)
EXTENDS Integers, Sequences, FiniteSets, TLC

\* ------------------------------------------------------------------ bounds

\* Number of user mutations (field edits, type changes, option edits) explored
\* together with the timers and the encoder (Spec).
MaxMutations == 2

\* Number of user mutations explored on their own (EditSpec).
MaxEdits == 4

\* Number of user mutations and of export button clicks (download / share /
\* copy) explored together with the pipeline (ExportSpec).
MaxExportMutations == 1
MaxExports == 1

\* ThemeSpec: clicks on the theme toggle, and page loads after the first.
MaxToggles == 4
MaxStartups == 2

\* Amounts of time by which one step of the model lets the clock advance.
TickSteps == {150}

\* ------------------------------------------------------- program constants

\* setTimeout(generateQRCode, 300)
DEBOUNCE_MS == 300

\* margin and width of the initial qrConfig
InitMargin == 4
InitWidth == 400

\* parseInt(e.target.value) || 400 and parseInt(e.target.value) || 4
WidthFallback == 400
MarginFallback == 4

\* ----------------------------------------------------------------- strings

\* Characters String.prototype.trim() strips (those the model's inputs can hold).
WhiteSpace == {" ", "\t", "\n"}

RECURSIVE TrimStart(_)
TrimStart(s) ==
    IF s = <<>> THEN s
    ELSE IF Head(s) \in WhiteSpace THEN TrimStart(Tail(s)) ELSE s

RECURSIVE TrimEnd(_)
TrimEnd(s) ==
    IF s = <<>> THEN s
    ELSE IF s[Len(s)] \in WhiteSpace THEN TrimEnd(SubSeq(s, 1, Len(s) - 1)) ELSE s

\* String.prototype.trim()
Trim(s) == TrimEnd(TrimStart(s))

\* The waving-hand emoji that ends the default content (one symbol of the string).
WAVE == "U+1F44B"

VCARD_HEAD == <<"B", "E", "G", "I", "N", ":", "V", "C", "A", "R", "D", "\n", "V", "E", "R", "S", "I", "O", "N", ":", "3", ".", "0", "\n", "F", "N", ":">>

VCARD_N == <<"\n", "N", ":">>

VCARD_N_TAIL == <<";", ";", ";">>

VCARD_ORG == <<"\n", "O", "R", "G", ":">>

VCARD_TITLE == <<"\n", "T", "I", "T", "L", "E", ":">>

VCARD_TEL_WORK == <<"\n", "T", "E", "L", ";", "T", "Y", "P", "E", "=", "W", "O", "R", "K", ":">>

VCARD_TEL_HOME == <<"\n", "T", "E", "L", ";", "T", "Y", "P", "E", "=", "H", "O", "M", "E", ":">>

VCARD_TEL_CELL == <<"\n", "T", "E", "L", ";", "T", "Y", "P", "E", "=", "C", "E", "L", "L", ":">>

VCARD_FAX_WORK == <<"\n", "F", "A", "X", ";", "T", "Y", "P", "E", "=", "W", "O", "R", "K", ":">>

VCARD_FAX_HOME == <<"\n", "F", "A", "X", ";", "T", "Y", "P", "E", "=", "H", "O", "M", "E", ":">>

VCARD_EMAIL == <<"\n", "E", "M", "A", "I", "L", ":">>

VCARD_URL == <<"\n", "U", "R", "L", ":">>

VCARD_ADR == <<"\n", "A", "D", "R", ";", "T", "Y", "P", "E", "=", "W", "O", "R", "K", ":", ";", ";">>

VCARD_NOTE == <<"\n", "N", "O", "T", "E", ":">>

VCARD_TEL == <<"\n", "T", "E", "L", ":">>

VCARD_END == <<"\n", "E", "N", "D", ":", "V", "C", "A", "R", "D">>

WIFI_T == <<"W", "I", "F", "I", ":", "T", ":">>

WIFI_S == <<";", "S", ":">>

WIFI_P == <<";", "P", ":">>

WIFI_TAIL == <<";", "H", ":", "f", "a", "l", "s", "e", ";", ";">>

MAILTO == <<"m", "a", "i", "l", "t", "o", ":">>

Q_SUBJECT == <<"?", "s", "u", "b", "j", "e", "c", "t", "=">>

AMP_BODY == <<"&", "b", "o", "d", "y", "=">>

TEL_SCHEME == <<"t", "e", "l", ":">>

SMS_SCHEME == <<"s", "m", "s", ":">>

Q_BODY == <<"?", "b", "o", "d", "y", "=">>

ENC_WPA == <<"W", "P", "A">>

ENC_WEP == <<"W", "E", "P">>

ENC_NOPASS == <<"n", "o", "p", "a", "s", "s">>

\* 'Hello, World! ' followed by the emoji: the content of the initial qrData
DefaultContentText == <<"H", "e", "l", "l", "o", ",", " ", "W", "o", "r", "l", "d", "!", " ">>

DefaultContent == DefaultContentText \o <<WAVE>>

\* ---------------------------------------------------------------- data model

PayloadTypes == {"text", "url", "contact", "wifi", "email", "phone", "sms"}

Variants == {"rich", "simple"}

\* Contact inputs whose handler stores the field and nothing else.
PlainContactFields(v) ==
    IF v = "rich"
    THEN {"organization", "position", "phoneWork", "phonePrivate", "phoneMobile",
          "faxWork", "faxPrivate", "email", "website", "location", "street",
          "city", "zipcode", "state", "country"}
    ELSE {"organization", "phone", "email"}

\* Inputs whose handler stores a metadata field and nothing else, per tab.
PlainFields(v, type) ==
    CASE type = "contact" -> PlainContactFields(v)
      [] type = "wifi" -> {"password", "encryption"}
      [] type = "email" -> {"subject", "body"}
      [] type = "sms" -> {"body"}
      [] OTHER -> {}

\* Tabs that show an input bound to qrData.content.
ContentTabs == {"text", "url", "email", "phone", "sms"}

\* The items of the Security Type select.
EncryptionItems == {ENC_WPA, ENC_WEP, ENC_NOPASS}

\* The items of the Error Correction select.
ErrorCorrectionLevels == {"L", "M", "Q", "H"}

\* qrData.metadata is undefined until the first metadata edit; undefined is the
\* function with the empty domain.
NoMetadata == <<>>

\* meta?.field || ''
Get(meta, field) == IF field \in DOMAIN meta THEN meta[field] ELSE <<>>

\* meta?.field || dflt
GetOr(meta, field, dflt) == IF field \in DOMAIN meta /\ meta[field] # <<>> THEN meta[field] ELSE dflt

\* { ...prev.metadata, [field]: value }
Put(meta, field, value) ==
    [k \in (DOMAIN meta) \cup {field} |-> IF k = field THEN value ELSE meta[k]]

InitQrData == [type |-> "text", content |-> DefaultContent, metadata |-> NoMetadata]

InitQrConfig ==
    [foregroundColor |-> "#8B5CF6", backgroundColor |-> "#ffffff",
     errorCorrectionLevel |-> "M", margin |-> InitMargin, width |-> InitWidth]

\* --------------------------------------------------------- state transitions
\* The updater functions passed to setQrData / setQrConfig.

\* Variant of the Tabs updater: the content is kept across the type change.
SetTypeKeepsContent(prev, value) == [prev EXCEPT !.type = value]

\* Tabs onValueChange
SetType(prev, value) == [prev EXCEPT !.type = value, !.content = <<>>]

\* content inputs of the text, url, email, phone and sms tabs
SetContent(prev, value) == [prev EXCEPT !.content = value]

\* First Name input (rich contact form)
SetFirstName(prev, value) ==
    [prev EXCEPT !.content = Trim(value \o <<" ">> \o Get(prev.metadata, "lastName")),
                 !.metadata = Put(prev.metadata, "firstName", value)]

\* Last Name input (rich contact form)
SetLastName(prev, value) ==
    [prev EXCEPT !.content = Trim(Get(prev.metadata, "firstName") \o <<" ">> \o value),
                 !.metadata = Put(prev.metadata, "lastName", value)]

\* Name input (simple contact form)
SetName(prev, value) ==
    [prev EXCEPT !.content = value, !.metadata = Put(prev.metadata, "name", value)]

\* Network Name (SSID) input
SetSsid(prev, value) ==
    [prev EXCEPT !.content = value, !.metadata = Put(prev.metadata, "ssid", value)]

\* Variant of SetMetaField: the metadata is replaced, not spread.
SetMetaFieldReplaces(prev, field, value) == [prev EXCEPT !.metadata = Put(NoMetadata, field, value)]

\* every other metadata input
SetMetaField(prev, field, value) == [prev EXCEPT !.metadata = Put(prev.metadata, field, value)]

\* ----------------------------------------------------------------- formatter
\* The switch of generateQRCode: the string handed to the encoder.

\* Variant of fullName without the trim.
FullNameUntrimmed(meta) == Get(meta, "firstName") \o <<" ">> \o Get(meta, "lastName")

FullName(meta) == Trim(Get(meta, "firstName") \o <<" ">> \o Get(meta, "lastName"))

\* Variant of the rich vCard template: the NOTE line is left out when the
\* location is empty.
VCardRichOmitsEmptyNote(meta) ==
    VCARD_HEAD \o FullName(meta)
    \o VCARD_N \o Get(meta, "lastName") \o <<";">> \o Get(meta, "firstName") \o VCARD_N_TAIL
    \o VCARD_ORG \o Get(meta, "organization")
    \o VCARD_TITLE \o Get(meta, "position")
    \o VCARD_TEL_WORK \o Get(meta, "phoneWork")
    \o VCARD_TEL_HOME \o Get(meta, "phonePrivate")
    \o VCARD_TEL_CELL \o Get(meta, "phoneMobile")
    \o VCARD_FAX_WORK \o Get(meta, "faxWork")
    \o VCARD_FAX_HOME \o Get(meta, "faxPrivate")
    \o VCARD_EMAIL \o Get(meta, "email")
    \o VCARD_URL \o Get(meta, "website")
    \o VCARD_ADR \o Get(meta, "street") \o <<";">> \o Get(meta, "city") \o <<";">> \o Get(meta, "state")
        \o <<";">> \o Get(meta, "zipcode") \o <<";">> \o Get(meta, "country")
    \o (IF Get(meta, "location") = <<>> THEN <<>> ELSE VCARD_NOTE \o Get(meta, "location"))
    \o VCARD_END

VCardRich(meta) ==
    VCARD_HEAD \o FullName(meta)
    \o VCARD_N \o Get(meta, "lastName") \o <<";">> \o Get(meta, "firstName") \o VCARD_N_TAIL
    \o VCARD_ORG \o Get(meta, "organization")
    \o VCARD_TITLE \o Get(meta, "position")
    \o VCARD_TEL_WORK \o Get(meta, "phoneWork")
    \o VCARD_TEL_HOME \o Get(meta, "phonePrivate")
    \o VCARD_TEL_CELL \o Get(meta, "phoneMobile")
    \o VCARD_FAX_WORK \o Get(meta, "faxWork")
    \o VCARD_FAX_HOME \o Get(meta, "faxPrivate")
    \o VCARD_EMAIL \o Get(meta, "email")
    \o VCARD_URL \o Get(meta, "website")
    \o VCARD_ADR \o Get(meta, "street") \o <<";">> \o Get(meta, "city") \o <<";">> \o Get(meta, "state")
        \o <<";">> \o Get(meta, "zipcode") \o <<";">> \o Get(meta, "country")
    \o VCARD_NOTE \o Get(meta, "location")
    \o VCARD_END

VCardSimple(meta) ==
    VCARD_HEAD \o Get(meta, "name")
    \o VCARD_ORG \o Get(meta, "organization")
    \o VCARD_TEL \o Get(meta, "phone")
    \o VCARD_EMAIL \o Get(meta, "email")
    \o VCARD_END

\* Variant of WifiString: no default for the encryption.
WifiStringNoDefault(meta) ==
    WIFI_T \o Get(meta, "encryption") \o WIFI_S \o Get(meta, "ssid")
    \o WIFI_P \o Get(meta, "password") \o WIFI_TAIL

WifiString(meta) ==
    WIFI_T \o GetOr(meta, "encryption", ENC_WPA) \o WIFI_S \o Get(meta, "ssid")
    \o WIFI_P \o Get(meta, "password") \o WIFI_TAIL

\* Variant of the format switch: subject and body are percent-encoded
\* (here: each space becomes %20).
RECURSIVE EscapeSpaces(_)
EscapeSpaces(s) ==
    IF s = <<>> THEN <<>>
    ELSE (IF Head(s) = " " THEN <<"%", "2", "0">> ELSE <<Head(s)>>) \o EscapeSpaces(Tail(s))

FormatContentEscaped(v, data) ==
    CASE data.type = "contact" -> (IF v = "rich" THEN VCardRich(data.metadata) ELSE VCardSimple(data.metadata))
      [] data.type = "wifi" -> WifiString(data.metadata)
      [] data.type = "email" -> MAILTO \o data.content \o Q_SUBJECT \o EscapeSpaces(Get(data.metadata, "subject"))
                                \o AMP_BODY \o EscapeSpaces(Get(data.metadata, "body"))
      [] data.type = "phone" -> TEL_SCHEME \o data.content
      [] data.type = "sms" -> SMS_SCHEME \o data.content \o Q_BODY \o EscapeSpaces(Get(data.metadata, "body"))
      [] OTHER -> data.content

FormatContent(v, data) ==
    CASE data.type = "contact" -> (IF v = "rich" THEN VCardRich(data.metadata) ELSE VCardSimple(data.metadata))
      [] data.type = "wifi" -> WifiString(data.metadata)
      [] data.type = "email" -> MAILTO \o data.content \o Q_SUBJECT \o Get(data.metadata, "subject") \o AMP_BODY \o Get(data.metadata, "body")
      [] data.type = "phone" -> TEL_SCHEME \o data.content
      [] data.type = "sms" -> SMS_SCHEME \o data.content \o Q_BODY \o Get(data.metadata, "body")
      [] OTHER -> data.content

\* Variant of EncoderArgs: the two colours are passed the wrong way round.
EncoderArgsColoursSwapped(v, data, config) ==
    [text |-> FormatContent(v, data),
     errorCorrectionLevel |-> config.errorCorrectionLevel,
     margin |-> config.margin,
     width |-> config.width,
     dark |-> config.backgroundColor,
     light |-> config.foregroundColor]

\* The arguments of QRCode.toDataURL(content, { errorCorrectionLevel, margin, width, color })
EncoderArgs(v, data, config) ==
    [text |-> FormatContent(v, data),
     errorCorrectionLevel |-> config.errorCorrectionLevel,
     margin |-> config.margin,
     width |-> config.width,
     dark |-> config.foregroundColor,
     light |-> config.backgroundColor]

\* --------------------------------------------------------------- numeric inputs

Digits == {"0", "1", "2", "3", "4", "5", "6", "7", "8", "9"}

DigitValue(c) ==
    CASE c = "0" -> 0 [] c = "1" -> 1 [] c = "2" -> 2 [] c = "3" -> 3 [] c = "4" -> 4
      [] c = "5" -> 5 [] c = "6" -> 6 [] c = "7" -> 7 [] c = "8" -> 8 [] c = "9" -> 9

\* The leading run of decimal digits of s, as a number (acc is the value so far).
RECURSIVE DigitRun(_, _)
DigitRun(s, acc) ==
    IF s = <<>> \/ Head(s) \notin Digits
    THEN acc
    ELSE DigitRun(Tail(s), 10 * acc + DigitValue(Head(s)))

\* parseInt(s): leading white space skipped, an optional sign, then the leading
\* digits; NaN when no digit follows.
ParseInt(s) ==
    LET t == TrimStart(s)
        neg == t # <<>> /\ Head(t) = "-"
        u == IF t # <<>> /\ Head(t) \in {"-", "+"} THEN Tail(t) ELSE t
    IN  IF u = <<>> \/ Head(u) \notin Digits
        THEN [nan |-> TRUE, value |-> 0]
        ELSE [nan |-> FALSE, value |-> IF neg THEN 0 - DigitRun(u, 0) ELSE DigitRun(u, 0)]

\* Variant of OrNumber: only NaN falls back, 0 is kept.
OrNumberKeepsZero(n, fallback) == IF n.nan THEN fallback ELSE n.value

\* n || fallback, for a number n: NaN and 0 are falsy.
OrNumber(n, fallback) == IF n.nan \/ n.value = 0 THEN fallback ELSE n.value

\* Size input
SetWidth(prev, typed) == [prev EXCEPT !.width = OrNumber(ParseInt(typed), WidthFallback)]

\* Margin input
SetMargin(prev, typed) == [prev EXCEPT !.margin = OrNumber(ParseInt(typed), MarginFallback)]

\* colour pickers and the Error Correction select
SetForegroundColor(prev, color) == [prev EXCEPT !.foregroundColor = color]

SetBackgroundColor(prev, color) == [prev EXCEPT !.backgroundColor = color]

SetErrorCorrectionLevel(prev, value) == [prev EXCEPT !.errorCorrectionLevel = value]

\* -------------------------------------------------------------------- inputs
\* The values the user types or picks in the behaviours explored.

TextInputs == {<<>>, <<" ">>, <<"a">>}

NumberInputs == {<<>>, <<"0">>, <<"7">>, <<"1", "1">>, <<"-", "1">>}

ColorInputs == {"#000000"}

\* The text "Hello, World!" typed into a content field.
HelloWorld == SubSeq(DefaultContentText, 1, 13)

ContentInputs == TextInputs \cup {HelloWorld}

\* --------------------------------------------------------------------- state

VARIABLES
    variant, qrData, qrConfig, qrCodeDataURL, isGenerating, timers, cleanup,
    calls, toasts, exports, clipboard, shared, downloaded, gen, burst,
    sinceMutation, failedSinceMutation, clicks

\* variant         which of the two QRGenerator sources is mounted
\* qrData          useState<QRData>
\* qrConfig        useState<QRConfig> (the fields the encoder is given)
\* qrCodeDataURL   useState<string>: <<>> is '', <<args>> the data URL of the
\*                 image the encoder makes of args
\* isGenerating    useState(false)
\* timers          the pending setTimeout callbacks, each with the qrData and
\*                 qrConfig its generateQRCode closure captured
\* cleanup         the timer ids the last effect's cleanup function clears
\* calls           the QRCode.toDataURL calls made so far, in order, each with
\*                 its arguments and its promise's state
\* toasts          how many times toast() was called with each title
\* exports         the share / copy promises not yet settled
\* clipboard       the text last written to the clipboard (<<>>: none, <<t>>)
\* shared          the files handed to navigator.share, in order
\* downloaded      the hrefs of the download links clicked, in order
\* gen             number of mutations of qrData / qrConfig so far
\* burst           number of mutations in the current rapid run: each one made
\*                 before DEBOUNCE_MS had passed since the one before it
\* sinceMutation   time since the last mutation (or the mount), capped at DEBOUNCE_MS
\* failedSinceMutation   an encoder call was rejected since the last mutation
\* clicks          number of export button clicks so far

exportVars == <<exports, clipboard, shared, downloaded, clicks>>

\* ThemeToggle (rendered beside QRGenerator by the Index page)
VARIABLES isDark, className, storedTheme, prefersDark, toggles, startups

\* isDark        useState(true) of ThemeToggle
\* className     document.documentElement.className, the theme applied
\* storedTheme   localStorage item 'theme' (NoTheme: getItem gives null)
\* prefersDark   matchMedia('(prefers-color-scheme: dark)').matches
\* toggles       number of clicks on the toggle so far
\* startups      number of page loads after the first

themeVars == <<isDark, className, storedTheme, prefersDark, toggles, startups>>

vars ==
    <<variant, qrData, qrConfig, qrCodeDataURL, isGenerating, timers, cleanup,
    calls, toasts, exports, clipboard, shared, downloaded, gen, burst,
    sinceMutation, failedSinceMutation, clicks,
    isDark, className, storedTheme, prefersDark, toggles, startups>>

\* localStorage.getItem('theme') === null
NoTheme == "null"

StoredThemes == {NoTheme, "dark", "light"}

\* stored === 'dark' || (!stored && prefersDark)
ShouldBeDark(stored, prefers) == stored = "dark" \/ (stored = NoTheme /\ prefers)

\* dark ? 'dark' : 'light'
ThemeName(dark) == IF dark THEN "dark" ELSE "light"

\* ThemeToggle after its first render and its mount effect.
ThemeMounted(stored, prefers) ==
    /\ storedTheme = stored
    /\ prefersDark = prefers
    /\ isDark = ShouldBeDark(stored, prefers)
    /\ className = ThemeName(ShouldBeDark(stored, prefers))
    /\ toggles = 0
    /\ startups = 0

ToastTitles ==
    {"QR Code Generated!", "Generation Failed", "Download Started!",
     "Copied to Clipboard!", "Share Failed", "Copied!", "Copy Failed"}

\* toast({ title, ... })
Toast(ts, title) == [ts EXCEPT ![title] = @ + 1]

Min(a, b) == IF a < b THEN a ELSE b

Max(a, b) == IF a > b THEN a ELSE b

\* ------------------------------------------------------- the debounce effect

\* Variant of ClearTimeout: the cleanup's clearTimeout cancels nothing.
ClearTimeoutKeepsTimer(ts, ids) == ts

\* clearTimeout(debounce), for the ids the cleanup closure holds
ClearTimeout(ts, ids) == {t \in ts : t.id \notin ids}

\* Variant of SetTimeout: the callback is scheduled with no delay.
SetTimeoutNoDelay(ts, id, data, config) ==
    ts \cup {[id |-> id, remaining |-> 0, data |-> data, config |-> config]}

\* setTimeout(generateQRCode, 300): generateQRCode is the closure of the render
\* the effect belongs to, so it reads that render's qrData and qrConfig.
SetTimeout(ts, id, data, config) ==
    ts \cup {[id |-> id, remaining |-> DEBOUNCE_MS, data |-> data, config |-> config]}

\* Variant of ShouldSchedule: the content is tested without trim().
ShouldScheduleUntrimmed(data) == data.content # <<>>

\* The effect's condition: qrData.content.trim()
ShouldSchedule(data) == Trim(data.content) # <<>>

\* useEffect(..., [qrData, qrConfig]): the previous effect's cleanup, then the body.
EffectTimers(ts, cl, data, config, id) ==
    IF ShouldSchedule(data)
    THEN SetTimeout(ClearTimeout(ts, cl), id, data, config)
    ELSE ClearTimeout(ts, cl)

\* Variant of EffectCleanup: the effect returns no cleanup function.
EffectCleanupMissing(data, id) == {}

\* What the effect returns: a cleanup for the timer it set, or nothing.
EffectCleanup(data, id) == IF ShouldSchedule(data) THEN {id} ELSE {}

\* Variant of QRGeneratorMounted: the effect does not run after the first render.
QRGeneratorMountedIdle ==
    /\ variant \in Variants
    /\ qrData = InitQrData
    /\ qrConfig = InitQrConfig
    /\ qrCodeDataURL = <<>>
    /\ isGenerating = FALSE
    /\ timers = {}
    /\ cleanup = {}
    /\ calls = <<>>
    /\ toasts = [t \in ToastTitles |-> 0]
    /\ exports = {}
    /\ clipboard = <<>>
    /\ shared = <<>>
    /\ downloaded = <<>>
    /\ gen = 0
    /\ burst = 0
    /\ sinceMutation = 0
    /\ failedSinceMutation = FALSE
    /\ clicks = 0

\* QRGenerator after its first render and its effect.
QRGeneratorMounted ==
    /\ variant \in Variants
    /\ qrData = InitQrData
    /\ qrConfig = InitQrConfig
    /\ qrCodeDataURL = <<>>
    /\ isGenerating = FALSE
    /\ timers = EffectTimers({}, {}, InitQrData, InitQrConfig, 0)
    /\ cleanup = EffectCleanup(InitQrData, 0)
    /\ calls = <<>>
    /\ toasts = [t \in ToastTitles |-> 0]
    /\ exports = {}
    /\ clipboard = <<>>
    /\ shared = <<>>
    /\ downloaded = <<>>
    /\ gen = 0
    /\ burst = 0
    /\ sinceMutation = 0
    /\ failedSinceMutation = FALSE
    /\ clicks = 0

\* The page after its first load, on a first visit with a dark system theme.
Init == QRGeneratorMounted /\ ThemeMounted(NoTheme, TRUE)

\* Variant of Commit: a change of qrData puts qrConfig back to its initial value.
CommitResetsOptions(data, config) ==
    /\ qrData' = data
    /\ qrConfig' = IF data # qrData THEN InitQrConfig ELSE config
    /\ gen' = gen + 1
    /\ burst' = IF sinceMutation < DEBOUNCE_MS THEN burst + 1 ELSE 1
    /\ sinceMutation' = 0
    /\ failedSinceMutation' = FALSE
    /\ timers' = EffectTimers(timers, cleanup, data, qrConfig', gen + 1)
    /\ cleanup' = EffectCleanup(data, gen + 1)
    /\ UNCHANGED <<variant, qrCodeDataURL, isGenerating, calls, toasts>>
    /\ UNCHANGED exportVars
    /\ UNCHANGED themeVars

\* A state update of qrData / qrConfig, the re-render and the effect it
\* triggers (cleanup of the previous effect, then the body), taken as one step:
\* no timer callback runs between the update and the effect.
Commit(data, config) ==
    /\ qrData' = data
    /\ qrConfig' = config
    /\ gen' = gen + 1
    /\ burst' = IF sinceMutation < DEBOUNCE_MS THEN burst + 1 ELSE 1
    /\ sinceMutation' = 0
    /\ failedSinceMutation' = FALSE
    /\ timers' = EffectTimers(timers, cleanup, data, config, gen + 1)
    /\ cleanup' = EffectCleanup(data, gen + 1)
    /\ UNCHANGED <<variant, qrCodeDataURL, isGenerating, calls, toasts>>
    /\ UNCHANGED exportVars
    /\ UNCHANGED themeVars

\* ------------------------------------------------------------ user mutations

\* Variant of ChangeType: the tab change also clears the displayed image.
ChangeTypeClearsImage(value) ==
    /\ value # qrData.type
    /\ qrData' = SetType(qrData, value)
    /\ qrCodeDataURL' = <<>>
    /\ gen' = gen + 1
    /\ burst' = IF sinceMutation < DEBOUNCE_MS THEN burst + 1 ELSE 1
    /\ sinceMutation' = 0
    /\ failedSinceMutation' = FALSE
    /\ timers' = EffectTimers(timers, cleanup, qrData', qrConfig, gen + 1)
    /\ cleanup' = EffectCleanup(qrData', gen + 1)
    /\ UNCHANGED <<variant, qrConfig, isGenerating, calls, toasts>>
    /\ UNCHANGED exportVars
    /\ UNCHANGED themeVars

\* A tab trigger is clicked; Tabs reports a value only when the selection changes.
ChangeType(value) ==
    /\ value # qrData.type
    /\ Commit(SetType(qrData, value), qrConfig)

EditContent(value) ==
    /\ qrData.type \in ContentTabs
    /\ Commit(SetContent(qrData, value), qrConfig)

EditFirstName(value) ==
    /\ qrData.type = "contact"
    /\ variant = "rich"
    /\ Commit(SetFirstName(qrData, value), qrConfig)

EditLastName(value) ==
    /\ qrData.type = "contact"
    /\ variant = "rich"
    /\ Commit(SetLastName(qrData, value), qrConfig)

EditName(value) ==
    /\ qrData.type = "contact"
    /\ variant = "simple"
    /\ Commit(SetName(qrData, value), qrConfig)

EditSsid(value) ==
    /\ qrData.type = "wifi"
    /\ Commit(SetSsid(qrData, value), qrConfig)

EditMetaField(field, value) ==
    /\ field \in PlainFields(variant, qrData.type)
    /\ (field = "encryption" <=> value \in EncryptionItems)
    /\ Commit(SetMetaField(qrData, field, value), qrConfig)

EditForegroundColor(color) == Commit(qrData, SetForegroundColor(qrConfig, color))

EditBackgroundColor(color) == Commit(qrData, SetBackgroundColor(qrConfig, color))

EditErrorCorrectionLevel(value) == Commit(qrData, SetErrorCorrectionLevel(qrConfig, value))

EditWidth(typed) == Commit(qrData, SetWidth(qrConfig, typed))

EditMargin(typed) == Commit(qrData, SetMargin(qrConfig, typed))

\* ----------------------------------------------------------- time and encoder

\* Time passes.
Tick(d) ==
    /\ (sinceMutation < DEBOUNCE_MS \/ \E t \in timers : t.remaining > 0)
    /\ sinceMutation' = Min(sinceMutation + d, DEBOUNCE_MS)
    /\ timers' = {[t EXCEPT !.remaining = Max(t.remaining - d, 0)] : t \in timers}
    /\ UNCHANGED <<variant, qrData, qrConfig, qrCodeDataURL, isGenerating, cleanup, calls, toasts, gen, burst, failedSinceMutation>>
    /\ UNCHANGED exportVars
    /\ UNCHANGED themeVars

\* generateQRCode up to its await: the early return, setIsGenerating(true), the
\* format switch and the call of QRCode.toDataURL. `id` is the generation of the
\* state the closure captured.
GenerateQRCode(data, config, id) ==
    IF Trim(data.content) = <<>>
    THEN UNCHANGED <<isGenerating, calls>>
    ELSE /\ isGenerating' = TRUE
         /\ calls' = Append(calls, [gen |-> id, args |-> EncoderArgs(variant, data, config), status |-> "pending"])

\* Variant of TimerFire: the timer re-arms (setInterval in place of setTimeout).
TimerFireRepeating(t) ==
    /\ t \in timers
    /\ t.remaining = 0
    /\ timers' = (timers \ {t}) \cup {[t EXCEPT !.remaining = DEBOUNCE_MS]}
    /\ GenerateQRCode(t.data, t.config, t.id)
    /\ UNCHANGED <<variant, qrData, qrConfig, qrCodeDataURL, cleanup, toasts, gen, burst, sinceMutation, failedSinceMutation>>
    /\ UNCHANGED exportVars
    /\ UNCHANGED themeVars

\* A debounce timer expires and runs its callback.
TimerFire(t) ==
    /\ t \in timers
    /\ t.remaining = 0
    /\ timers' = timers \ {t}
    /\ GenerateQRCode(t.data, t.config, t.id)
    /\ UNCHANGED <<variant, qrData, qrConfig, qrCodeDataURL, cleanup, toasts, gen, burst, sinceMutation, failedSinceMutation>>
    /\ UNCHANGED exportVars
    /\ UNCHANGED themeVars

\* Variant of EncodeResolve: the success toast is shown twice.
EncodeResolveToastsTwice(i) ==
    /\ i \in DOMAIN calls
    /\ calls[i].status = "pending"
    /\ calls' = [calls EXCEPT ![i].status = "resolved"]
    /\ qrCodeDataURL' = <<calls[i].args>>
    /\ toasts' = Toast(Toast(toasts, "QR Code Generated!"), "QR Code Generated!")
    /\ isGenerating' = FALSE
    /\ UNCHANGED <<variant, qrData, qrConfig, timers, cleanup, gen, burst, sinceMutation, failedSinceMutation>>
    /\ UNCHANGED exportVars
    /\ UNCHANGED themeVars

\* The awaited promise resolves: setQrCodeDataURL, the success toast, finally.
EncodeResolve(i) ==
    /\ i \in DOMAIN calls
    /\ calls[i].status = "pending"
    /\ calls' = [calls EXCEPT ![i].status = "resolved"]
    /\ qrCodeDataURL' = <<calls[i].args>>
    /\ toasts' = Toast(toasts, "QR Code Generated!")
    /\ isGenerating' = FALSE
    /\ UNCHANGED <<variant, qrData, qrConfig, timers, cleanup, gen, burst, sinceMutation, failedSinceMutation>>
    /\ UNCHANGED exportVars
    /\ UNCHANGED themeVars

\* Variant of EncodeReject: the catch block also clears the displayed image.
EncodeRejectClearsImage(i) ==
    /\ i \in DOMAIN calls
    /\ calls[i].status = "pending"
    /\ calls' = [calls EXCEPT ![i].status = "rejected"]
    /\ qrCodeDataURL' = <<>>
    /\ toasts' = Toast(toasts, "Generation Failed")
    /\ isGenerating' = FALSE
    /\ failedSinceMutation' = TRUE
    /\ UNCHANGED <<variant, qrData, qrConfig, timers, cleanup, gen, burst, sinceMutation>>
    /\ UNCHANGED exportVars
    /\ UNCHANGED themeVars

\* Variant of EncodeReject: the catch block calls the encoder again.
EncodeRejectRetries(i) ==
    /\ i \in DOMAIN calls
    /\ calls[i].status = "pending"
    /\ calls' = Append([calls EXCEPT ![i].status = "rejected"], calls[i])
    /\ toasts' = Toast(toasts, "Generation Failed")
    /\ isGenerating' = TRUE
    /\ failedSinceMutation' = TRUE
    /\ UNCHANGED <<variant, qrData, qrConfig, qrCodeDataURL, timers, cleanup, gen, burst, sinceMutation>>
    /\ UNCHANGED exportVars
    /\ UNCHANGED themeVars

\* The awaited promise rejects: the catch block, finally.
EncodeReject(i) ==
    /\ i \in DOMAIN calls
    /\ calls[i].status = "pending"
    /\ calls' = [calls EXCEPT ![i].status = "rejected"]
    /\ toasts' = Toast(toasts, "Generation Failed")
    /\ isGenerating' = FALSE
    /\ failedSinceMutation' = TRUE
    /\ UNCHANGED <<variant, qrData, qrConfig, qrCodeDataURL, timers, cleanup, gen, burst, sinceMutation>>
    /\ UNCHANGED exportVars
    /\ UNCHANGED themeVars

\* ------------------------------------------------------------- export actions

pipelineVars ==
    <<variant, qrData, qrConfig, qrCodeDataURL, isGenerating, timers, cleanup,
      calls, gen, burst, sinceMutation, failedSinceMutation>>

\* Variant of downloadQRCode without the early return on an empty image.
DownloadQRCodeUnguarded ==
    /\ clicks' = clicks + 1
    /\ downloaded' = Append(downloaded, qrCodeDataURL)
    /\ toasts' = Toast(toasts, "Download Started!")
    /\ UNCHANGED <<exports, clipboard, shared>>
    /\ UNCHANGED pipelineVars
    /\ UNCHANGED themeVars

\* downloadQRCode
DownloadQRCode ==
    /\ clicks' = clicks + 1
    /\ IF qrCodeDataURL = <<>>
       THEN UNCHANGED <<downloaded, toasts>>
       ELSE /\ downloaded' = Append(downloaded, qrCodeDataURL)
            /\ toasts' = Toast(toasts, "Download Started!")
    /\ UNCHANGED <<exports, clipboard, shared>>
    /\ UNCHANGED pipelineVars
    /\ UNCHANGED themeVars

\* shareQRCode up to its first await; canShare is the probe of navigator.share.
ShareQRCode(canShare) ==
    /\ clicks' = clicks + 1
    /\ IF qrCodeDataURL = <<>>
       THEN UNCHANGED exports
       ELSE exports' = exports \cup {[id |-> clicks + 1, fn |-> "share", via |-> IF canShare THEN "navigator.share" ELSE "clipboard", url |-> qrCodeDataURL, text |-> <<>>]}
    /\ UNCHANGED <<clipboard, shared, downloaded, toasts>>
    /\ UNCHANGED pipelineVars
    /\ UNCHANGED themeVars

\* Variant of copyQRCode: the type-formatted string is copied.
CopyQRCodeFormatted ==
    /\ clicks' = clicks + 1
    /\ IF qrCodeDataURL = <<>>
       THEN UNCHANGED exports
       ELSE exports' = exports \cup {[id |-> clicks + 1, fn |-> "copy", via |-> "clipboard", url |-> <<>>, text |-> FormatContent(variant, qrData)]}
    /\ UNCHANGED <<clipboard, shared, downloaded, toasts>>
    /\ UNCHANGED pipelineVars
    /\ UNCHANGED themeVars

\* copyQRCode up to its await
CopyQRCode ==
    /\ clicks' = clicks + 1
    /\ IF qrCodeDataURL = <<>>
       THEN UNCHANGED exports
       ELSE exports' = exports \cup {[id |-> clicks + 1, fn |-> "copy", via |-> "clipboard", url |-> <<>>, text |-> qrData.content]}
    /\ UNCHANGED <<clipboard, shared, downloaded, toasts>>
    /\ UNCHANGED pipelineVars
    /\ UNCHANGED themeVars

\* Variant of ExportResolve: a successful export also schedules a regeneration.
ExportResolveReschedules(op) ==
    /\ op \in exports
    /\ exports' = exports \ {op}
    /\ IF op.via = "navigator.share"
       THEN /\ shared' = Append(shared, op.url)
            /\ UNCHANGED <<clipboard, toasts>>
       ELSE /\ clipboard' = <<[url |-> op.url, text |-> op.text]>>
            /\ toasts' = Toast(toasts, IF op.fn = "share" THEN "Copied to Clipboard!" ELSE "Copied!")
            /\ UNCHANGED shared
    /\ timers' = SetTimeout(timers, gen, qrData, qrConfig)
    /\ UNCHANGED <<downloaded, clicks>>
    /\ UNCHANGED <<variant, qrData, qrConfig, qrCodeDataURL, isGenerating, cleanup, calls, gen, burst, sinceMutation, failedSinceMutation>>
    /\ UNCHANGED themeVars

\* The awaited share / clipboard promise resolves.
ExportResolve(op) ==
    /\ op \in exports
    /\ exports' = exports \ {op}
    /\ IF op.via = "navigator.share"
       THEN /\ shared' = Append(shared, op.url)
            /\ UNCHANGED <<clipboard, toasts>>
       ELSE /\ clipboard' = <<[url |-> op.url, text |-> op.text]>>
            /\ toasts' = Toast(toasts, IF op.fn = "share" THEN "Copied to Clipboard!" ELSE "Copied!")
            /\ UNCHANGED shared
    /\ UNCHANGED <<downloaded, clicks>>
    /\ UNCHANGED pipelineVars
    /\ UNCHANGED themeVars

\* Variant of ExportReject: a failed native share falls back to the clipboard.
ExportRejectFallsBack(op) ==
    /\ op \in exports
    /\ exports' = exports \ {op}
    /\ toasts' = Toast(toasts, IF op.fn = "share" THEN "Share Failed" ELSE "Copy Failed")
    /\ clipboard' = IF op.via = "navigator.share" THEN <<[url |-> op.url, text |-> <<>>]>> ELSE clipboard
    /\ UNCHANGED <<shared, downloaded, clicks>>
    /\ UNCHANGED pipelineVars
    /\ UNCHANGED themeVars

\* The awaited share / clipboard promise (or the fetch before it) rejects: the catch block.
ExportReject(op) ==
    /\ op \in exports
    /\ exports' = exports \ {op}
    /\ toasts' = Toast(toasts, IF op.fn = "share" THEN "Share Failed" ELSE "Copy Failed")
    /\ UNCHANGED <<clipboard, shared, downloaded, clicks>>
    /\ UNCHANGED pipelineVars
    /\ UNCHANGED themeVars

\* --------------------------------------------------------------- theme toggle

qrVars == <<pipelineVars, exportVars, toasts>>

\* toggleTheme
ToggleTheme ==
    /\ isDark' = ~isDark
    /\ className' = ThemeName(~isDark)
    /\ storedTheme' = ThemeName(~isDark)
    /\ toggles' = toggles + 1
    /\ UNCHANGED <<prefersDark, startups>>
    /\ UNCHANGED qrVars

\* Variant of the mount effect of ThemeToggle: the stored flag is not read.
ThemeStartupIgnoresStored ==
    /\ isDark' = prefersDark
    /\ className' = ThemeName(prefersDark)
    /\ startups' = startups + 1
    /\ UNCHANGED <<storedTheme, prefersDark, toggles>>
    /\ UNCHANGED qrVars

\* The page is loaded again: useState(true), then the mount effect of
\* ThemeToggle. QRGenerator starts afresh as well, which is the state it is in
\* throughout ThemeSpec.
ThemeStartup ==
    /\ isDark' = ShouldBeDark(storedTheme, prefersDark)
    /\ className' = ThemeName(ShouldBeDark(storedTheme, prefersDark))
    /\ startups' = startups + 1
    /\ UNCHANGED <<storedTheme, prefersDark, toggles>>
    /\ UNCHANGED qrVars

\* The system colour scheme changes; ThemeToggle reads it at startup only.
PreferenceChange ==
    /\ prefersDark' = ~prefersDark
    /\ UNCHANGED <<isDark, className, storedTheme, toggles, startups>>
    /\ UNCHANGED qrVars

\* ------------------------------------------------------------- specification

\* The user edits a field, changes the tab or changes an option; at most
\* `limit` times.
Mutation(limit) ==
    \/ \E value \in PayloadTypes : gen < limit /\ ChangeType(value)
    \/ \E value \in ContentInputs : gen < limit /\ EditContent(value)
    \/ \E value \in TextInputs : gen < limit /\ EditFirstName(value)
    \/ \E value \in TextInputs : gen < limit /\ EditLastName(value)
    \/ \E value \in TextInputs : gen < limit /\ EditName(value)
    \/ \E value \in TextInputs : gen < limit /\ EditSsid(value)
    \/ \E field \in PlainFields(variant, qrData.type), value \in TextInputs \cup EncryptionItems : gen < limit /\ EditMetaField(field, value)
    \/ \E color \in ColorInputs : gen < limit /\ EditForegroundColor(color)
    \/ \E color \in ColorInputs : gen < limit /\ EditBackgroundColor(color)
    \/ \E value \in ErrorCorrectionLevels : gen < limit /\ EditErrorCorrectionLevel(value)
    \/ \E typed \in NumberInputs : gen < limit /\ EditWidth(typed)
    \/ \E typed \in NumberInputs : gen < limit /\ EditMargin(typed)

\* Time passes, timers expire and encoder promises settle.
Pipeline ==
    \/ \E d \in TickSteps : Tick(d)
    \/ \E t \in timers : TimerFire(t)
    \/ \E i \in DOMAIN calls : EncodeResolve(i)
    \/ \E i \in DOMAIN calls : EncodeReject(i)

\* The user clicks an export button (at most `limit` times); export promises settle.
Export(limit) ==
    \/ clicks < limit /\ DownloadQRCode
    \/ \E canShare \in BOOLEAN : clicks < limit /\ ShareQRCode(canShare)
    \/ clicks < limit /\ CopyQRCode
    \/ \E op \in exports : ExportResolve(op)
    \/ \E op \in exports : ExportReject(op)

\* The regeneration pipeline under user mutations.
Next == Mutation(MaxMutations) \/ Pipeline

Spec == Init /\ [][Next]_vars

\* The form state on its own: mutations only, no time passing.
EditNext == Mutation(MaxEdits)

EditSpec == Init /\ [][EditNext]_vars

\* The export actions beside the pipeline, under content edits, tab changes
\* and option changes.
ExportMutation(limit) ==
    \/ \E value \in PayloadTypes : gen < limit /\ ChangeType(value)
    \/ \E value \in ContentInputs : gen < limit /\ EditContent(value)
    \/ \E value \in ErrorCorrectionLevels : gen < limit /\ EditErrorCorrectionLevel(value)

ExportNext == ExportMutation(MaxExportMutations) \/ Pipeline \/ Export(MaxExports)

ExportSpec == Init /\ [][ExportNext]_vars

\* The theme toggle on its own: any stored flag and system preference at the
\* first load, then toggles, reloads and changes of the system preference.
ThemeInit ==
    /\ QRGeneratorMounted
    /\ \E stored \in StoredThemes, prefers \in BOOLEAN : ThemeMounted(stored, prefers)

ThemeNext ==
    \/ toggles < MaxToggles /\ ToggleTheme
    \/ startups < MaxStartups /\ ThemeStartup
    \/ PreferenceChange

ThemeSpec == ThemeInit /\ [][ThemeNext]_vars

\* ------------------------------------------------ the formatter on its own

\* A field of metadata that was never written (undefined in the source).
UNSET == <<"undefined">>

\* Values of text fields the formatter is applied to: the spec's Wi-Fi example,
\* and a text whose characters a URI would need escaped.
HOME == <<"H", "o", "m", "e">>

PW123 == <<"p", "w", "1", "2", "3">>

SPECIAL == <<"a", "&", "b", "=", "c", " ", "d", "?", "%">>

\* A metadata object holding the fields of `choice` that are not UNSET.
Defined(choice) == [k \in {f \in DOMAIN choice : choice[f] # UNSET} |-> choice[k]]

\* A distinct one-character value for each plain contact field.
FieldMark(f) ==
    CASE f = "organization" -> <<"o">> [] f = "position" -> <<"p">>
      [] f = "phoneWork" -> <<"1">> [] f = "phonePrivate" -> <<"2">>
      [] f = "phoneMobile" -> <<"3">> [] f = "faxWork" -> <<"4">>
      [] f = "faxPrivate" -> <<"5">> [] f = "email" -> <<"e">>
      [] f = "website" -> <<"w">> [] f = "location" -> <<"l">>
      [] f = "street" -> <<"s">> [] f = "city" -> <<"c">>
      [] f = "zipcode" -> <<"z">> [] f = "state" -> <<"t">>
      [] f = "country" -> <<"y">> [] f = "phone" -> <<"9">>
      [] OTHER -> <<"x">>

NameInputs == {UNSET, <<>>, <<"A">>, <<"B", " ">>, <<" ", "C">>}

NameFields(v) == IF v = "rich" THEN {"firstName", "lastName"} ELSE {"name"}

\* Contact metadata: every choice of the name fields, with the other fields
\* all unset, all empty, all filled, or exactly one filled.
ContactMetadata(v) ==
    LET others == PlainContactFields(v)
        fills == {[f \in others |-> UNSET], [f \in others |-> <<>>], [f \in others |-> FieldMark(f)]}
                 \cup {[f \in others |-> IF f = g THEN FieldMark(f) ELSE UNSET] : g \in others}
    IN  {Defined([f \in NameFields(v) \cup others |-> IF f \in others THEN o[f] ELSE n[f]]) :
            n \in [NameFields(v) -> NameInputs], o \in fills}

WifiMetadata ==
    {Defined([ssid |-> s, password |-> p, encryption |-> e]) :
        s \in {UNSET, <<>>, HOME}, p \in {UNSET, <<>>, PW123},
        e \in {UNSET, <<>>} \cup EncryptionItems}

MessageMetadata ==
    {Defined([subject |-> s, body |-> b]) :
        s \in {UNSET, <<>>, SPECIAL}, b \in {UNSET, <<>>, SPECIAL}}

\* The metadata objects given to the formatter for a payload type.
MetadataInputs(v, type) ==
    CASE type = "contact" -> ContactMetadata(v)
      [] type = "wifi" -> WifiMetadata
      [] type \in {"email", "sms"} -> MessageMetadata
      [] OTHER -> {NoMetadata, Defined([body |-> SPECIAL])}

\* The QRData values the formatter is applied to: every payload type, a
\* non-blank content, and metadata with fields unset, empty or filled. They
\* range over the QRData interface, whether or not the form produces them.
FormatInputs(v) ==
    UNION {{[type |-> t, content |-> c, metadata |-> m] :
                c \in {<<"a">>, SPECIAL}, m \in MetadataInputs(v, t)} : t \in PayloadTypes}

\* The component holding one of these values, its effect having run.
FormatInit ==
    /\ variant \in Variants
    /\ qrData \in FormatInputs(variant)
    /\ qrConfig = InitQrConfig
    /\ qrCodeDataURL = <<>>
    /\ isGenerating = FALSE
    /\ timers = EffectTimers({}, {}, qrData, qrConfig, 0)
    /\ cleanup = EffectCleanup(qrData, 0)
    /\ calls = <<>>
    /\ toasts = [t \in ToastTitles |-> 0]
    /\ exports = {}
    /\ clipboard = <<>>
    /\ shared = <<>>
    /\ downloaded = <<>>
    /\ gen = 0
    /\ burst = 0
    /\ sinceMutation = 0
    /\ failedSinceMutation = FALSE
    /\ clicks = 0
    /\ ThemeMounted(NoTheme, TRUE)

\* The debounce runs out and generateQRCode formats the value and calls the encoder.
FormatNext == Pipeline

FormatSpec == FormatInit /\ [][FormatNext]_vars

\* ==================================================================== claims

PendingCalls == {i \in DOMAIN calls : calls[i].status = "pending"}

ResolvedCalls == {i \in DOMAIN calls : calls[i].status = "resolved"}

RejectedCalls == {i \in DOMAIN calls : calls[i].status = "rejected"}

\* The encoder calls made for the state of generation g.
CallsFor(g) == {i \in DOMAIN calls : calls[i].gen = g}

\* The most recently issued call of a non-empty set of calls.
Newest(S) == CHOOSE i \in S : \A j \in S : j <= i

ContentEmpty == Trim(qrData.content) = <<>>

\* What the encoder is given for the current qrData and qrConfig.
CurrentArgs == EncoderArgs(variant, qrData, qrConfig)

\* Steps: a mutation; an encoder call is issued; an encoder call fails.
Mutated == gen' # gen

CallIssued == Len(calls') > Len(calls)

EncodeFailed == \E i \in DOMAIN calls : calls[i].status = "pending" /\ calls'[i].status = "rejected"

ExportFailed == toasts'["Share Failed"] > toasts["Share Failed"] \/ toasts'["Copy Failed"] > toasts["Copy Failed"]

\* C1: stale-result rejection. Whenever some encode has succeeded, the displayed
\* image is the result of the most recently issued successful encode: a stale
\* call that completes after a newer one does not overwrite the newer result.
C1_StaleResultRejected ==
    ResolvedCalls # {} => qrCodeDataURL = <<calls[Newest(ResolvedCalls)].args>>

\* C2: debounce idempotence. After a run of N >= 1 mutations, each made within
\* the quiet window of the one before, that leaves the content non-empty,
\* exactly one encode call for the run has been made or is still scheduled,
\* none of it for an earlier mutation of the run, and it carries the qrData
\* and qrConfig of the last mutation.
C2_DebounceIdempotence ==
    (burst >= 1 /\ ~ContentEmpty) =>
        LET made == {i \in DOMAIN calls : calls[i].gen > gen - burst}
        IN  /\ Cardinality(made) + Cardinality(timers) = 1
            /\ \A i \in made : calls[i].gen = gen /\ calls[i].args = CurrentArgs
            /\ \A t \in timers : t.id = gen /\ t.data = qrData /\ t.config = qrConfig

\* Two rapid mutations have been followed by the single encode call of the run.
C2_Witness ==
    /\ burst >= 2
    /\ ~ContentEmpty
    /\ CallsFor(gen) # {}
    /\ CallsFor(gen - 1) = {}

\* C3: an encode call is issued only when DEBOUNCE_MS have passed since the
\* most recent mutation, and a mutation leaves no timer scheduled before it.
C3_QuietPeriod ==
    [][/\ CallIssued => sinceMutation >= DEBOUNCE_MS
       /\ Mutated => \A t \in timers' : t.id = gen']_vars

\* A mutation cancelled the mount's timer and its own encode call was issued
\* once the quiet period had passed.
C3_Witness ==
    /\ gen >= 1
    /\ CallsFor(0) = {}
    /\ CallsFor(gen) # {}
    /\ timers = {}

\* C4: while the trimmed content is empty no timer is scheduled and no encode
\* call is made for that state; the mutation that empties the content cancels
\* the pending timer and leaves the displayed image as it was.
C4_EmptyContentIdles ==
    /\ [](ContentEmpty => timers = {} /\ cleanup = {} /\ CallsFor(gen) = {})
    /\ [][(Mutated /\ Trim(qrData'.content) = <<>>) => (qrCodeDataURL' = qrCodeDataURL /\ timers' = {})]_vars

\* Whitespace-only content, a quiet period later: the earlier image is still shown.
C4_Witness ==
    /\ ContentEmpty
    /\ qrData.content # <<>>
    /\ qrCodeDataURL # <<>>
    /\ sinceMutation = DEBOUNCE_MS
    /\ CallsFor(gen) = {}

\* C5: a type change resets the record: afterwards the content is empty and no
\* metadata field is still set.
C5_TypeChangeResets ==
    [][qrData'.type # qrData.type => (qrData'.content = <<>> /\ \A f \in DOMAIN qrData'.metadata : qrData'.metadata[f] = <<>>)]_vars

\* C6: content mirrors the metadata it stands for: the ssid for wifi, the
\* trimmed "first last" name (rich form) or the name (simple form) for contact.
C6_ContentMirrorsMetadata ==
    /\ qrData.type = "wifi" => qrData.content = Get(qrData.metadata, "ssid")
    /\ qrData.type = "contact" => qrData.content = (IF variant = "rich" THEN FullName(qrData.metadata) ELSE Get(qrData.metadata, "name"))

\* C7: when an encode call fails the displayed image stays what it was and
\* exactly one failure notification is raised (and no other notification).
C7_FailureKeepsImage ==
    [][EncodeFailed => (qrCodeDataURL' = qrCodeDataURL /\ toasts' = Toast(toasts, "Generation Failed"))]_vars

\* An encode call failed while an image was displayed.
C7_Witness ==
    /\ RejectedCalls # {}
    /\ qrCodeDataURL # <<>>
    /\ toasts["Generation Failed"] = 1

\* A failed share or copy is not re-attempted: the failure leaves no new export
\* pending and touches neither the clipboard nor the share service.
NoExportRetry == ExportFailed => (exports' \subseteq exports /\ clipboard' = clipboard /\ shared' = shared)

\* C8 as stated: after an encode call fails no encode call is issued until the
\* next mutation, and a failed share or copy is not re-attempted.
C8_NoEncodeAfterFailure ==
    [][(CallIssued => ~failedSinceMutation) /\ NoExportRetry]_vars

\* C8 as amended: a failure triggers nothing. The step in which an encode call
\* fails schedules no timer and issues no call, and every call issued is the
\* first one for the current state (so it is never a repeat of a failed call);
\* a failed share or copy is not re-attempted.
C8_NoAutomaticRetry ==
    [][/\ EncodeFailed => (timers' = timers /\ Len(calls') = Len(calls))
       /\ CallIssued => (CallsFor(gen) = {} /\ calls'[Len(calls')].gen = gen)
       /\ NoExportRetry]_vars

\* An encode call failed, a later call was issued, and an export failed.
C8_Witness ==
    /\ \E i \in RejectedCalls : \E j \in DOMAIN calls : j > i
    /\ toasts["Share Failed"] + toasts["Copy Failed"] >= 1

\* C9: once nothing is scheduled or in flight, the content is non-empty and no
\* encode call has failed, the displayed image is the encoding of the current
\* qrData and qrConfig (and nothing can change it but a mutation).
C9_EventuallyConsistent ==
    (timers = {} /\ PendingCalls = {} /\ RejectedCalls = {} /\ ~ContentEmpty) => qrCodeDataURL = <<CurrentArgs>>

\* C10 as stated: at most one encode call is in flight at any time.
C10_OneInFlight == Cardinality(PendingCalls) <= 1

\* C10 as amended: the debounce issues at most one encode call per settled
\* state, in the order of the states; calls for different states may be in
\* flight together.
C10_OneCallPerSettledState ==
    \A i, j \in DOMAIN calls : i < j => calls[i].gen < calls[j].gen

\* Two encode calls, for two different states, are in flight together.
C10_Witness ==
    \E i, j \in PendingCalls : i # j /\ calls[i].gen # calls[j].gen

\* C11: when an encoder call succeeds, the displayed image becomes exactly that
\* call's result (whatever was displayed before) and the confirmation toast is
\* shown exactly once for it, so successes and confirmations stay in step.
C11_SuccessReplacesImage ==
    /\ [](toasts["QR Code Generated!"] = Cardinality(ResolvedCalls))
    /\ [][\A i \in DOMAIN calls :
            (calls[i].status = "pending" /\ calls'[i].status = "resolved")
            => /\ qrCodeDataURL' = <<calls[i].args>>
               /\ toasts' = Toast(toasts, "QR Code Generated!")]_vars

\* Two calls with different arguments have succeeded and the image is the
\* result of the one that resolved onto a displayed image.
C11_Witness ==
    \E i, j \in ResolvedCalls :
        /\ calls[i].args # calls[j].args
        /\ qrCodeDataURL = <<calls[j].args>>
        /\ toasts["QR Code Generated!"] = 2

\* C12: every encoder call is given the formatted string of the qrData current
\* when the debounce timer fires, and that moment's errorCorrectionLevel,
\* margin, width, foreground colour as dark and background colour as light. In
\* particular the text "Hello, World!" under the initial options is passed as
\* that very string with level M, margin 4, width 400 and the initial colours.
C12_EncoderGivenCurrentState ==
    [][CallIssued =>
        LET args == calls'[Len(calls')].args IN
        /\ args.text = FormatContent(variant, qrData)
        /\ args.errorCorrectionLevel = qrConfig.errorCorrectionLevel
        /\ args.margin = qrConfig.margin
        /\ args.width = qrConfig.width
        /\ args.dark = qrConfig.foregroundColor
        /\ args.light = qrConfig.backgroundColor
        /\ (qrData.type = "text" /\ qrData.content = HelloWorld /\ qrConfig = InitQrConfig)
           => args = [text |-> HelloWorld, errorCorrectionLevel |-> "M", margin |-> 4,
                      width |-> 400, dark |-> "#8B5CF6", light |-> "#ffffff"]]_vars

\* The user typed "Hello, World!" (ending in "!") as text, left the options as
\* they were, and the encoder has been called for that state.
C12_Witness ==
    /\ qrData.type = "text" /\ qrData.content = HelloWorld /\ qrConfig = InitQrConfig
    /\ \E i \in CallsFor(gen) : calls[i].args.text = HelloWorld
    /\ HelloWorld[Len(HelloWorld)] = "!"

\* An export handler is invoked.
Clicked == clicks' # clicks

\* C13: Download invoked while no encoder call has succeeded does nothing: no
\* link is clicked (no file action), no toast is shown, and no state of the
\* component changes. (The same holds of the other two export handlers.)
C13_DownloadWithoutImageNoOp ==
    [][(Clicked /\ ResolvedCalls = {})
       => /\ downloaded' = downloaded
          /\ toasts' = toasts
          /\ <<exports, clipboard, shared>>' = <<exports, clipboard, shared>>
          /\ pipelineVars' = pipelineVars]_vars

\* An export handler was invoked while the first encoder call was still in
\* flight, and nothing was downloaded or announced.
C13_Witness ==
    /\ clicks >= 1
    /\ ResolvedCalls = {} /\ PendingCalls # {}
    /\ qrCodeDataURL = <<>>
    /\ downloaded = <<>>
    /\ toasts["Download Started!"] = 0

\* C14: Share with an image present goes one way only. With navigator.share
\* available the image is handed to it as a file and the clipboard is left
\* alone; without it the image's data URL is written to the clipboard. When the
\* way taken fails, "Share Failed" is shown once and the other way is not
\* tried: nothing is shared, nothing is written, nothing new is started.
C14_ShareOnePath ==
    /\ [](\A op \in exports : op.fn = "share" => op.url # <<>>)
    /\ [][(Clicked /\ qrCodeDataURL # <<>>)
            => \A op \in exports' \ exports :
                  op.fn = "share" => (op.url = qrCodeDataURL /\ clipboard' = clipboard /\ shared' = shared)]_vars
    /\ [][\A op \in exports \ exports' :
            op.fn = "share" =>
              IF toasts'["Share Failed"] # toasts["Share Failed"]
              THEN /\ toasts' = Toast(toasts, "Share Failed")
                   /\ clipboard' = clipboard
                   /\ shared' = shared
                   /\ exports' = exports \ {op}
              ELSE IF op.via = "navigator.share"
                   THEN shared' = Append(shared, op.url) /\ clipboard' = clipboard
                   ELSE clipboard' = <<[url |-> op.url, text |-> <<>>]>> /\ shared' = shared]_vars

\* A share of a displayed image failed: the failure was announced and neither
\* the share service nor the clipboard received anything.
C14_Witness ==
    /\ qrCodeDataURL # <<>>
    /\ toasts["Share Failed"] = 1
    /\ exports = {}
    /\ clipboard = <<>>
    /\ shared = <<>>

\* C15: Copy hands the clipboard qrData.content as it is when Copy is invoked:
\* plain text, neither the image's data URL nor the string the encoder would
\* be given. When the write succeeds the clipboard holds that text; when it
\* fails "Copy Failed" is shown once and the clipboard keeps what it held.
C15_CopyWritesContent ==
    /\ [][Clicked => \A op \in exports' \ exports :
                         op.fn = "copy" => (op.text = qrData.content /\ op.url = <<>>)]_vars
    /\ [][\A op \in exports \ exports' :
            op.fn = "copy" =>
              IF toasts'["Copy Failed"] # toasts["Copy Failed"]
              THEN toasts' = Toast(toasts, "Copy Failed") /\ clipboard' = clipboard
              ELSE clipboard' = <<[url |-> <<>>, text |-> op.text]>>]_vars

\* On the phone tab, where the encoder would be given "tel:" and the content,
\* a copy has succeeded and the clipboard holds the content alone.
C15_Witness ==
    /\ qrData.type = "phone"
    /\ FormatContent(variant, qrData) # qrData.content
    /\ clipboard = <<[url |-> <<>>, text |-> qrData.content]>>
    /\ toasts["Copied!"] = 1

\* A step of an export: a handler is invoked, or a share / copy promise settles.
ExportStep == Clicked \/ exports' # exports

\* C16: an export changes nothing of the pipeline. Across every step of
\* Download, Share or Copy, successful or failed, qrData, qrConfig and the
\* displayed image stay as they are, no timer is set or cleared and no encoder
\* call is made or settled.
C16_ExportsLeavePipelineAlone ==
    [][ExportStep
       => /\ qrData' = qrData
          /\ qrConfig' = qrConfig
          /\ qrCodeDataURL' = qrCodeDataURL
          /\ timers' = timers
          /\ cleanup' = cleanup
          /\ calls' = calls
          /\ isGenerating' = isGenerating]_vars

\* An export of a displayed image has failed while a debounce timer was
\* pending for an edited state.
C16_Witness ==
    /\ toasts["Share Failed"] + toasts["Copy Failed"] = 1
    /\ qrCodeDataURL # <<>>
    /\ gen >= 1
    /\ \E t \in timers : t.id = gen /\ t.remaining > 0

\* The value of a metadata field as the claims speak of it: empty when unset.
Field(f) == IF f \in DOMAIN qrData.metadata THEN qrData.metadata[f] ELSE <<>>

\* The string given to the encoder by call i.
Encoded(i) == calls[i].args.text

\* WIFI:T:WEP;S:Home;P:pw123;H:false;;
WIFI_EXAMPLE == <<"W", "I", "F", "I", ":", "T", ":", "W", "E", "P", ";", "S", ":", "H", "o", "m", "e", ";", "P", ":", "p", "w", "1", "2", "3", ";", "H", ":", "f", "a", "l", "s", "e", ";", ";">>

\* C17: for a wifi payload the encoder is given
\* WIFI:T:<encryption>;S:<ssid>;P:<password>;H:false;; where the encryption is
\* WPA when it is unset or empty and ssid and password are empty when unset;
\* ssid Home, password pw123 and encryption WEP give
\* WIFI:T:WEP;S:Home;P:pw123;H:false;;.
C17_WifiTemplate ==
    \A i \in DOMAIN calls :
        qrData.type = "wifi" =>
            /\ Encoded(i) = <<"W", "I", "F", "I", ":", "T", ":">>
                             \o (IF Field("encryption") = <<>> THEN <<"W", "P", "A">> ELSE Field("encryption"))
                             \o <<";", "S", ":">> \o Field("ssid")
                             \o <<";", "P", ":">> \o Field("password")
                             \o <<";", "H", ":", "f", "a", "l", "s", "e", ";", ";">>
            /\ (Field("ssid") = HOME /\ Field("password") = PW123 /\ Field("encryption") = ENC_WEP)
               => Encoded(i) = WIFI_EXAMPLE

\* The encoder has been called for ssid Home, password pw123, encryption WEP.
C17_Witness ==
    /\ qrData.type = "wifi"
    /\ qrData.metadata = [ssid |-> HOME, password |-> PW123, encryption |-> ENC_WEP]
    /\ calls # <<>>
    /\ Encoded(1) = WIFI_EXAMPLE

\* The lines of a text: it is cut at each line break.
RECURSIVE SplitLines(_)
SplitLines(s) ==
    LET k == IF \E n \in 1..Len(s) : s[n] = "\n"
             THEN CHOOSE n \in 1..Len(s) : s[n] = "\n" /\ \A j \in 1..(n - 1) : s[j] # "\n"
             ELSE 0
    IN  IF k = 0 THEN <<s>>
        ELSE <<SubSeq(s, 1, k - 1)>> \o SplitLines(SubSeq(s, k + 1, Len(s)))

HasPrefix(line, p) == Len(line) >= Len(p) /\ SubSeq(line, 1, Len(p)) = p

\* The value of the FN line (the third line) of a vCard text.
FNValue(text) == LET line == SplitLines(text)[3] IN SubSeq(line, 4, Len(line))

\* C18: in the rich variant the FN line of a contact carries
\* trim(firstName + " " + lastName): the (trimmed) first name alone when the
\* last name is empty, the (trimmed) last name alone when the first name is
\* empty, and nothing when both are empty.
C18_FullNameTrimmed ==
    \A i \in DOMAIN calls :
        (variant = "rich" /\ qrData.type = "contact") =>
            LET first == Field("firstName")
                last == Field("lastName")
                fn == FNValue(Encoded(i))
            IN  /\ HasPrefix(SplitLines(Encoded(i))[3], <<"F", "N", ":">>)
                /\ fn = Trim(first \o <<" ">> \o last)
                /\ last = <<>> => fn = Trim(first)
                /\ first = <<>> => fn = Trim(last)
                /\ (last = <<>> /\ first \in {<<>>, <<"A">>}) => fn = first
                /\ (first = <<>> /\ last \in {<<>>, <<"A">>}) => fn = last
                /\ (first = <<>> /\ last = <<>>) => fn = <<>>

\* The encoder has been called for a contact with first name "A" and no last
\* name, and the FN line reads "A".
C18_Witness ==
    /\ variant = "rich" /\ qrData.type = "contact"
    /\ Field("firstName") = <<"A">> /\ Field("lastName") = <<>>
    /\ calls # <<>>
    /\ FNValue(Encoded(1)) = <<"A">>

\* The rich vCard with every slot empty.
VCARD_EMPTY_RICH ==
    <<"B", "E", "G", "I", "N", ":", "V", "C", "A", "R", "D", "\n", "V", "E", "R", "S", "I", "O", "N", ":", "3", ".", "0", "\n", "F", "N", ":", "\n", "N", ":", ";", ";", ";", ";", "\n", "O", "R", "G", ":", "\n", "T", "I", "T", "L", "E", ":", "\n", "T", "E", "L", ";", "T", "Y", "P", "E", "=", "W", "O", "R", "K", ":", "\n", "T", "E", "L", ";", "T", "Y", "P", "E", "=", "H", "O", "M", "E", ":", "\n", "T", "E", "L", ";", "T", "Y", "P", "E", "=", "C", "E", "L", "L", ":", "\n", "F", "A", "X", ";", "T", "Y", "P", "E", "=", "W", "O", "R", "K", ":", "\n", "F", "A", "X", ";", "T", "Y", "P", "E", "=", "H", "O", "M", "E", ":", "\n", "E", "M", "A", "I", "L", ":", "\n", "U", "R", "L", ":", "\n", "A", "D", "R", ";", "T", "Y", "P", "E", "=", "W", "O", "R", "K", ":", ";", ";", ";", ";", ";", ";", "\n", "N", "O", "T", "E", ":", "\n", "E", "N", "D", ":", "V", "C", "A", "R", "D">>

\* The simple vCard with every slot empty.
VCARD_EMPTY_SIMPLE ==
    <<"B", "E", "G", "I", "N", ":", "V", "C", "A", "R", "D", "\n", "V", "E", "R", "S", "I", "O", "N", ":", "3", ".", "0", "\n", "F", "N", ":", "\n", "O", "R", "G", ":", "\n", "T", "E", "L", ":", "\n", "E", "M", "A", "I", "L", ":", "\n", "E", "N", "D", ":", "V", "C", "A", "R", "D">>

\* WIFI:T:WPA;S:;P:;H:false;;
WIFI_EMPTY == <<"W", "I", "F", "I", ":", "T", ":", "W", "P", "A", ";", "S", ":", ";", "P", ":", ";", "H", ":", "f", "a", "l", "s", "e", ";", ";">>

\* How the lines of a vCard begin, in order: rich variant, simple variant.
VCardLinesRich ==
    <<<<"B", "E", "G", "I", "N", ":", "V", "C", "A", "R", "D">>,
      <<"V", "E", "R", "S", "I", "O", "N", ":", "3", ".", "0">>,
      <<"F", "N", ":">>,
      <<"N", ":">>,
      <<"O", "R", "G", ":">>,
      <<"T", "I", "T", "L", "E", ":">>,
      <<"T", "E", "L", ";", "T", "Y", "P", "E", "=", "W", "O", "R", "K", ":">>,
      <<"T", "E", "L", ";", "T", "Y", "P", "E", "=", "H", "O", "M", "E", ":">>,
      <<"T", "E", "L", ";", "T", "Y", "P", "E", "=", "C", "E", "L", "L", ":">>,
      <<"F", "A", "X", ";", "T", "Y", "P", "E", "=", "W", "O", "R", "K", ":">>,
      <<"F", "A", "X", ";", "T", "Y", "P", "E", "=", "H", "O", "M", "E", ":">>,
      <<"E", "M", "A", "I", "L", ":">>,
      <<"U", "R", "L", ":">>,
      <<"A", "D", "R", ";", "T", "Y", "P", "E", "=", "W", "O", "R", "K", ":">>,
      <<"N", "O", "T", "E", ":">>,
      <<"E", "N", "D", ":", "V", "C", "A", "R", "D">>>>

VCardLinesSimple ==
    <<<<"B", "E", "G", "I", "N", ":", "V", "C", "A", "R", "D">>,
      <<"V", "E", "R", "S", "I", "O", "N", ":", "3", ".", "0">>,
      <<"F", "N", ":">>,
      <<"O", "R", "G", ":">>,
      <<"T", "E", "L", ":">>,
      <<"E", "M", "A", "I", "L", ":">>,
      <<"E", "N", "D", ":", "V", "C", "A", "R", "D">>>>

\* metadata is absent, or every field of it is the empty string.
EmptyMetadata == \A f \in DOMAIN qrData.metadata : qrData.metadata[f] = <<>>

\* What a payload with empty metadata is encoded as.
EmptyTemplate(v, type, content) ==
    CASE type = "contact" -> (IF v = "rich" THEN VCARD_EMPTY_RICH ELSE VCARD_EMPTY_SIMPLE)
      [] type = "wifi" -> WIFI_EMPTY
      [] type = "email" -> <<"m", "a", "i", "l", "t", "o", ":">> \o content
                           \o <<"?", "s", "u", "b", "j", "e", "c", "t", "=", "&", "b", "o", "d", "y", "=">>
      [] type = "phone" -> <<"t", "e", "l", ":">> \o content
      [] type = "sms" -> <<"s", "m", "s", ":">> \o content \o <<"?", "b", "o", "d", "y", "=">>
      [] OTHER -> content

\* C19: formatting never fails. Once the debounce has run out the encoder has
\* been called, and "Generation Failed" is shown only for a call the encoder
\* rejected. With metadata absent or all empty, every payload type is encoded
\* as its fixed template with the optional slots empty. A contact is always
\* encoded as the full list of vCard lines in their fixed order (rich variant:
\* BEGIN:VCARD, VERSION:3.0, FN, N, ORG, TITLE, TEL WORK / HOME / CELL,
\* FAX WORK / HOME, EMAIL, URL, ADR, NOTE, END:VCARD; the simple variant has
\* FN, ORG, TEL, EMAIL), whichever fields are set.
C19_FormattingNeverFails ==
    /\ timers = {} => calls # <<>>
    /\ toasts["Generation Failed"] = Cardinality(RejectedCalls)
    /\ \A i \in DOMAIN calls :
           /\ EmptyMetadata => Encoded(i) = EmptyTemplate(variant, qrData.type, qrData.content)
           /\ qrData.type = "contact" =>
                 LET lines == SplitLines(Encoded(i))
                     begin == IF variant = "rich" THEN VCardLinesRich ELSE VCardLinesSimple
                 IN  /\ Len(lines) = Len(begin)
                     /\ \A k \in DOMAIN begin : HasPrefix(lines[k], begin[k])

\* The encoder has been called for a contact of the rich variant that has no
\* metadata at all, with the vCard whose slots are all empty.
C19_Witness ==
    /\ variant = "rich" /\ qrData.type = "contact"
    /\ qrData.metadata = NoMetadata
    /\ calls # <<>>
    /\ Encoded(1) = VCARD_EMPTY_RICH

\* mailto:a?subject=a&b=c d?%&body=a&b=c d?%
MAILTO_EXAMPLE ==
    <<"m", "a", "i", "l", "t", "o", ":", "a", "?", "s", "u", "b", "j", "e", "c", "t", "=", "a", "&", "b", "=", "c", " ", "d", "?", "%", "&", "b", "o", "d", "y", "=", "a", "&", "b", "=", "c", " ", "d", "?", "%">>

\* C20: text and url are encoded as the content itself; phone as "tel:" and
\* the content; sms as "sms:", the content, "?body=" and the body; email as
\* "mailto:", the content, "?subject=", the subject, "&body=" and the body.
\* Subject and body are empty when unset, and every field goes in character
\* for character: & = ? % and the space are not percent-encoded.
C20_PlainSchemes ==
    \A i \in DOMAIN calls :
        /\ qrData.type \in {"text", "url"} => Encoded(i) = qrData.content
        /\ qrData.type = "phone" => Encoded(i) = <<"t", "e", "l", ":">> \o qrData.content
        /\ qrData.type = "sms" =>
              Encoded(i) = <<"s", "m", "s", ":">> \o qrData.content
                           \o <<"?", "b", "o", "d", "y", "=">> \o Field("body")
        /\ qrData.type = "email" =>
              Encoded(i) = <<"m", "a", "i", "l", "t", "o", ":">> \o qrData.content
                           \o <<"?", "s", "u", "b", "j", "e", "c", "t", "=">> \o Field("subject")
                           \o <<"&", "b", "o", "d", "y", "=">> \o Field("body")
        /\ (qrData.type = "email" /\ qrData.content = <<"a">>
               /\ Field("subject") = SPECIAL /\ Field("body") = SPECIAL)
           => Encoded(i) = MAILTO_EXAMPLE

\* The encoder has been called for an email to "a" whose subject and body
\* both hold characters a URI reserves, and was given them as they are.
C20_Witness ==
    /\ qrData.type = "email" /\ qrData.content = <<"a">>
    /\ Field("subject") = SPECIAL /\ Field("body") = SPECIAL
    /\ calls # <<>>
    /\ Encoded(1) = MAILTO_EXAMPLE

\* C21: in every reachable state qrConfig is well-formed: the margin is not
\* negative and the error correction level is one of L, M, Q, H, whatever
\* integers were typed into the margin and size inputs.
C21_RenderOptionsWellFormed ==
    /\ qrConfig.margin >= 0
    /\ qrConfig.errorCorrectionLevel \in {"L", "M", "Q", "H"}

\* C22: qrData and qrConfig are independent. An edit that changes qrConfig
\* leaves qrData as it is, and an edit or type change that changes qrData
\* leaves qrConfig as it is; either kind of edit alone, when it leaves the
\* trimmed content non-empty, schedules a regeneration of the new state after
\* the full quiet period.
C22_PayloadAndOptionsIndependent ==
    [][Mutated =>
        /\ qrConfig' # qrConfig => qrData' = qrData
        /\ qrData' # qrData => qrConfig' = qrConfig
        /\ Trim(qrData'.content) # <<>> =>
              timers' = {[id |-> gen', remaining |-> DEBOUNCE_MS, data |-> qrData', config |-> qrConfig']}]_vars

\* After an option edit alone and, later, a content edit alone, each changed
\* state has been sent to the encoder.
C22_Witness ==
    /\ gen = 2
    /\ qrConfig # InitQrConfig /\ qrData # InitQrData
    /\ \E i \in CallsFor(1) : calls[i].args.text = DefaultContent /\ calls[i].args # EncoderArgs(variant, InitQrData, InitQrConfig)
    /\ \E i \in CallsFor(2) : calls[i].args.text # DefaultContent

\* C23: the theme preference round-trips. Once the toggle has been clicked, the
\* item stored under 'theme' names the theme applied to the document, whatever
\* toggles and page loads follow. A page load applies the stored theme when
\* there is one and the system preference when there is none, and writes
\* nothing to the store.
C23_ThemeRoundTrip ==
    /\ [](className = ThemeName(isDark))
    /\ [](toggles >= 1 => storedTheme = className)
    /\ [][startups' # startups =>
            /\ storedTheme' = storedTheme
            /\ className' = IF storedTheme = NoTheme THEN ThemeName(prefersDark) ELSE storedTheme]_vars

\* After toggles and a later page load the light theme is stored and applied
\* although the system prefers dark.
C23_Witness ==
    /\ toggles >= 1 /\ startups >= 1
    /\ storedTheme = "light" /\ className = "light" /\ ~isDark
    /\ prefersDark

\* C24: isGenerating is true exactly while an encoder call is in flight: true
\* from the start of a call, false once it has completed, and never false
\* while some call is still outstanding.
C24_IsGeneratingWhileInFlight == isGenerating <=> PendingCalls # {}

\* C25: a type change empties the content and cancels the pending debounce
\* timer, leaving the displayed image and qrConfig as they were. From then on
\* no encoder call is issued while the trimmed content is empty: an edit of a
\* field that is not mirrored into the content (wifi password, contact
\* organization, email subject, ...) leaves the content empty and sets no timer.
C25_TypeChangeIdles ==
    /\ [][qrData'.type # qrData.type =>
            /\ qrData'.content = <<>>
            /\ timers' = {}
            /\ qrCodeDataURL' = qrCodeDataURL
            /\ qrConfig' = qrConfig]_vars
    /\ [][CallIssued => ~ContentEmpty]_vars
    /\ [][(Mutated /\ ContentEmpty /\ qrData'.content = qrData.content)
            => (timers' = {} /\ calls' = calls)]_vars

\* After an image was displayed the user went to the wifi tab and typed a
\* password only; the quiet period has passed and no further encoder call was
\* made, the image still being the one of the text payload.
C25_Witness ==
    /\ qrData.type = "wifi"
    /\ Get(qrData.metadata, "password") = <<"a">>
    /\ qrData.content = <<>>
    /\ sinceMutation = DEBOUNCE_MS
    /\ timers = {}
    /\ Len(calls) = 1
    /\ qrCodeDataURL = <<calls[1].args>>

\* C26: at most one debounce timer is pending at any time and it is the one of
\* the current state; a mutation leaves none of the timers that were pending
\* before it, so every encoder call is issued for the state current at the time
\* the timer fires.
C26_SingleTimer ==
    /\ [](Cardinality(timers) <= 1)
    /\ [](\A t \in timers : t.id = gen /\ t.data = qrData /\ t.config = qrConfig)
    /\ [][Mutated => \A t \in timers : \A u \in timers' : u.id # t.id]_vars
    /\ [][CallIssued => calls'[Len(calls')].gen = gen]_vars

\* A second mutation arrived while the timer of the first was half way through
\* its delay: the only timer pending is the one of the second mutation, itself
\* half way, and no encoder call was made for the first.
C26_Witness ==
    /\ gen = 2
    /\ burst = 2
    /\ CallsFor(1) = {}
    /\ sinceMutation = 150
    /\ timers = {[id |-> 2, remaining |-> 150, data |-> qrData, config |-> qrConfig]}

\* {qrCodeDataURL && (...)}: the Download, Share and Copy buttons are rendered.
ActionButtonsShown == qrCodeDataURL # <<>>

\* C27: the displayed image is monotone. It is empty as long as no encoder call
\* has succeeded and non-empty from then on: no step (edit, type change, failed
\* encode, export action or its outcome) takes a displayed image away, so the
\* export buttons, once shown, stay shown.
C27_ImageMonotone ==
    /\ [](ResolvedCalls = {} <=> qrCodeDataURL = <<>>)
    /\ [][qrCodeDataURL # <<>> => qrCodeDataURL' # <<>>]_vars
    /\ [][ActionButtonsShown => ActionButtonsShown']_vars

\* The first image has survived an edit, a failed encode of the edited content
\* and a download.
C27_Witness ==
    /\ Len(calls) = 2
    /\ calls[1].status = "resolved"
    /\ calls[2].status = "rejected"
    /\ gen = 1
    /\ Len(downloaded) = 1
    /\ qrCodeDataURL = <<calls[1].args>>
    /\ ActionButtonsShown

\* The integer written by each text typed into a number input, for the texts
\* that write one.
TypedIntegers == {<<"0">>, <<"7">>, <<"1", "1">>, <<"-", "1">>}

IntegerOf(typed) ==
    CASE typed = <<"0">> -> 0
      [] typed = <<"7">> -> 7
      [] typed = <<"1", "1">> -> 11
      [] typed = <<"-", "1">> -> 0 - 1

\* What the input is said to store: the integer typed, unclamped, or the
\* default when the text writes no integer or writes 0.
StoredNumber(typed, default) ==
    IF typed \in TypedIntegers /\ IntegerOf(typed) # 0 THEN IntegerOf(typed) ELSE default

\* C28: typing an integer v into the Margin (Size) input stores v as margin
\* (width) whatever the input's min and max are, except that a text that is no
\* number, and the number 0, store the default 4 (400); so the margin is never
\* 0 after an entry in the Margin input, and never 0 at all.
C28_NumericEntry ==
    /\ [][\A typed \in NumberInputs :
            /\ (Mutated /\ qrConfig' = SetMargin(qrConfig, typed))
                  => qrConfig'.margin = StoredNumber(typed, MarginFallback)
            /\ (Mutated /\ qrConfig' = SetWidth(qrConfig, typed))
                  => qrConfig'.width = StoredNumber(typed, WidthFallback)]_vars
    /\ [](qrConfig.margin # 0 /\ qrConfig.width # 0)

\* 11 was typed into Margin (max 10) and 7 into Size (min 200): both are stored
\* as typed.
C28_Witness ==
    /\ gen = 2
    /\ qrData = InitQrData
    /\ qrConfig = [InitQrConfig EXCEPT !.margin = 11, !.width = 7]
    /\ timers # {}

\* The metadata fields whose input also writes qrData.content.
MirroredFields(v, type) ==
    CASE type = "contact" -> IF v = "rich" THEN {"firstName", "lastName"} ELSE {"name"}
      [] type = "wifi" -> {"ssid"}
      [] OTHER -> {}

\* The metadata fields whose value (meta?.field || '') differs between two records.
ChangedFields(m1, m2) == {f \in (DOMAIN m1) \cup (DOMAIN m2) : Get(m1, f) # Get(m2, f)}

\* C29: a field edit changes only what it names. A step that changes a metadata
\* field changes that one field only and leaves the type and qrConfig as they
\* were; it changes the content only when the field is a mirrored one
\* (firstName, lastName or name for contact, ssid for wifi). A step that edits
\* the content on a tab with a content input leaves the metadata and the type
\* as they were.
C29_FieldEditFrame ==
    [][Mutated =>
        LET changed == ChangedFields(qrData.metadata, qrData'.metadata)
        IN  /\ changed # {} =>
                  /\ Cardinality(changed) = 1
                  /\ qrData'.type = qrData.type
                  /\ qrConfig' = qrConfig
            /\ (changed # {} /\ qrData'.content # qrData.content)
                  => changed \subseteq MirroredFields(variant, qrData.type)
            /\ (changed # {} /\ ~(changed \subseteq MirroredFields(variant, qrData.type)))
                  => qrData'.content = qrData.content
            /\ (qrData'.content # qrData.content /\ qrData'.type = qrData.type /\ qrData.type \in ContentTabs)
                  => changed = {}]_vars

\* On the wifi tab the network name and then the password were typed, or the
\* password first: each edit kept the other field, and the content is the ssid.
C29_Witness ==
    /\ qrData.type = "wifi"
    /\ gen = 3
    /\ Get(qrData.metadata, "ssid") = <<"a">>
    /\ Get(qrData.metadata, "password") = <<"a">>
    /\ Get(qrData.metadata, "encryption") = <<>>
    /\ qrData.content = <<"a">>
    /\ qrConfig = InitQrConfig

\* The browser runs its timers: time passes while a timer is running, and a
\* timer that has run out fires.
StartupSpec ==
    /\ Spec
    /\ WF_vars(\E d \in TickSteps : Tick(d))
    /\ WF_vars(\E t \in timers : TimerFire(t))

\* What the encoder is given for the initial qrData and qrConfig.
InitArgs == EncoderArgs(variant, InitQrData, InitQrConfig)

\* C30: the mount is a trigger. Until the first mutation there is either the
\* mount's timer pending or the one encoder call it led to, never both and never
\* neither; that call is issued once DEBOUNCE_MS have passed, for the default
\* content and the default qrConfig; when it has succeeded its result is the
\* displayed image. Unless a mutation comes first, the call is eventually made.
C30_StartupTriggers ==
    /\ [](gen = 0 => Cardinality(timers) + Len(calls) = 1)
    /\ [](\A i \in CallsFor(0) : calls[i].args = InitArgs)
    /\ [](Cardinality(CallsFor(0)) <= 1)
    /\ [][(gen = 0 /\ CallIssued) => (sinceMutation >= DEBOUNCE_MS /\ calls = <<>>)]_vars
    /\ []((gen = 0 /\ ResolvedCalls # {}) => qrCodeDataURL = <<InitArgs>>)
    /\ <>(gen > 0 \/ Len(calls) = 1)

\* No user input: the mount's encoder call was made after the quiet period, has
\* succeeded, and its image is displayed with nothing further scheduled.
C30_Witness ==
    /\ gen = 0
    /\ Len(calls) = 1
    /\ calls[1].status = "resolved"
    /\ calls[1].gen = 0
    /\ qrCodeDataURL = <<InitArgs>>
    /\ timers = {}
    /\ ~isGenerating
    /\ toasts["QR Code Generated!"] = 1

====
